---- MODULE Spec2Model ----
(***************************************************************************)
(* NovaLink stream receivers (UAudioReceiver, UEmotionReceiver): the       *)
(* connection/session lifecycle shared by both receivers and the           *)
(* message-to-event translation.  One behaviour follows one receiver       *)
(* instance; Init chooses its class.  The websocket transports the         *)
(* session creates are numbered 1, 2, ... in creation order.               *)
(***************************************************************************)
EXTENDS Integers, Sequences, FiniteSets, TLC

(***************************************************************************)
(* Bounds of the model.                                                    *)
(***************************************************************************)
\* transports one session may create in a behaviour
MaxSockets == 2
\* bytes in one raw message
MaxChunk == 2

(***************************************************************************)
(* Values.                                                                 *)
(***************************************************************************)
DefaultAudioUrl == "ws://localhost:5000/ws/audio"
DefaultEmotionUrl == "ws://localhost:5000/ws/emotion"
OverrideUrl == "ws://override"
EmptyUrl == ""

\* the closure code StopConnection passes to IWebSocket::Close
CloseCode == 1000

\* the invalid TSharedPtr<IWebSocket>
NullSocket == 0
SocketIds == 1..MaxSockets

\* the four delegates of a transport a session binds to
ConnectedDelegate == "OnConnected"
ErrorDelegate == "OnConnectionError"
ClosedDelegate == "OnClosed"
MessageDelegate(k) == IF k = "audio" THEN "OnRawMessage" ELSE "OnMessage"
Delegates(k) == {ConnectedDelegate, ErrorDelegate, ClosedDelegate, MessageDelegate(k)}

\* a transport the session has not created yet
NoSocket == [state |-> "none", bound |-> {}]
\* a transport whose last reference was dropped: the object is gone, and its
\* delegates with it
DestroyedSocket == [state |-> "destroyed", bound |-> {}]

VARIABLES
    kind,                       \* "audio" (UAudioReceiver) or "emotion" (UEmotionReceiver)
    WebSocketUrl,               \* UPROPERTY WebSocketUrl, the configured default address
    WebSocket,                  \* the transport the session holds, or NullSocket
    bIsConnected,               \* the cached flag IsConnected() returns
    sockets,                    \* the transports: their own state and the delegates the
                                \* session is bound to
    created,                    \* number of transports created so far
    OnConnectionStateChanged,   \* the most recent values broadcast to connection-state
                                \* listeners, oldest first (the last two)
    last                        \* the last call or callback: its name, the transport that
                                \* delivered it, and what it did (transport operations,
                                \* connection-state broadcasts, payload broadcasts)

vars == <<kind, WebSocketUrl, WebSocket, bIsConnected, sockets, created,
          OnConnectionStateChanged, last>>

(***************************************************************************)
(* The part of the state the member functions read and write, as a record, *)
(* so that each member function is an operator from records to records.    *)
(* ops, stateEvents and payloads collect what the running call does: the   *)
(* operations on transports, the OnConnectionStateChanged broadcasts and   *)
(* the OnAudioChunkReceived / OnEmotionUpdate broadcasts, in order.        *)
(***************************************************************************)
Session ==
    [kind |-> kind, WebSocketUrl |-> WebSocketUrl, WebSocket |-> WebSocket,
     bIsConnected |-> bIsConnected, sockets |-> sockets, created |-> created,
     ops |-> <<>>, stateEvents |-> <<>>, payloads |-> <<>>]

IsConnected == bIsConnected

\* ResetWebSocket without its last line: the flag is left as it was
ResetWebSocketKeepsFlag(s, destroyed) ==
    IF s.WebSocket # NullSocket
    THEN [s EXCEPT !.WebSocket = NullSocket,
                   !.sockets[s.WebSocket] = IF destroyed THEN DestroyedSocket ELSE @]
    ELSE s

\* UAudioReceiver::ResetWebSocket / UEmotionReceiver::ResetWebSocket.
\* WebSocket.Reset() drops the session's reference; the transport object dies
\* with it when that was the last one (destroyed), and lives on when the
\* websocket layer holds another.
ResetWebSocket(s, destroyed) ==
    LET s1 == IF s.WebSocket # NullSocket
              THEN [s EXCEPT !.WebSocket = NullSocket,
                             !.sockets[s.WebSocket] =
                                 IF destroyed THEN DestroyedSocket ELSE @]
              ELSE s
    IN  [s1 EXCEPT !.bIsConnected = FALSE]

\* the four RemoveAll(this) calls of StopConnection on transport t, in order
RemoveAllOps(k, t) ==
    <<<<t, "RemoveAll", ConnectedDelegate>>, <<t, "RemoveAll", ErrorDelegate>>,
      <<t, "RemoveAll", ClosedDelegate>>, <<t, "RemoveAll", MessageDelegate(k)>>>>

\* StopConnection without the IsConnected() test: it asks every transport to close
StopConnectionAlwaysCloses(s, destroyed) ==
    LET t  == s.WebSocket
        s1 == IF t # NullSocket
              THEN [s EXCEPT !.sockets[t].bound = @ \ Delegates(s.kind),
                             !.sockets[t].state = "closing",
                             !.ops = @ \o RemoveAllOps(s.kind, t)
                                       \o <<<<t, "Close", ToString(CloseCode)>>>>]
              ELSE s
    IN  ResetWebSocket(s1, destroyed)

\* UAudioReceiver::StopConnection / UEmotionReceiver::StopConnection
StopConnection(s, destroyed) ==
    LET t  == s.WebSocket
        s1 == IF t # NullSocket
              THEN LET u == [s EXCEPT !.sockets[t].bound = @ \ Delegates(s.kind),
                                      !.ops = @ \o RemoveAllOps(s.kind, t)]
                   IN  IF s.sockets[t].state = "connected"
                       THEN [u EXCEPT !.sockets[t].state = "closing",
                                      !.ops = Append(@, <<t, "Close", ToString(CloseCode)>>)]
                       ELSE u
              ELSE s
    IN  ResetWebSocket(s1, destroyed)

\* the four AddUObject(this, ...) calls of StartConnection on transport t, in order
AddOps(k, t) ==
    <<<<t, "AddUObject", ConnectedDelegate>>, <<t, "AddUObject", ErrorDelegate>>,
      <<t, "AddUObject", ClosedDelegate>>, <<t, "AddUObject", MessageDelegate(k)>>>>

\* the resolution turned round: the configured address wins over the override
TargetUrlPrefersConfigured(s, OptionalOverrideUrl) ==
    IF s.WebSocketUrl = EmptyUrl THEN OptionalOverrideUrl ELSE s.WebSocketUrl

\* the address StartConnection resolves
TargetUrl(s, OptionalOverrideUrl) ==
    IF OptionalOverrideUrl = EmptyUrl THEN s.WebSocketUrl ELSE OptionalOverrideUrl

\* StartConnection with the teardown moved before the test of the address
StartConnectionStopsFirst(s, OptionalOverrideUrl, destroyed) ==
    LET s1 == StopConnection(s, destroyed)
        t  == s1.created + 1
    IN  IF TargetUrl(s, OptionalOverrideUrl) = EmptyUrl
        THEN s1
        ELSE [s1 EXCEPT !.created = t,
                        !.WebSocket = t,
                        !.sockets[t] = [state |-> "connecting", bound |-> Delegates(s.kind)],
                        !.ops = @ \o <<<<t, "CreateWebSocket", TargetUrl(s, OptionalOverrideUrl)>>>>
                                    \o AddOps(s.kind, t) \o <<<<t, "Connect", "">>>>]

\* StartConnection that takes the connect request for the connection and sets
\* the flag at once
StartConnectionMarksConnected(s, OptionalOverrideUrl, destroyed) ==
    IF TargetUrl(s, OptionalOverrideUrl) = EmptyUrl
    THEN s
    ELSE LET s1 == StopConnection(s, destroyed)
             t  == s1.created + 1
         IN  [s1 EXCEPT !.created = t,
                        !.WebSocket = t,
                        !.bIsConnected = TRUE,
                        !.sockets[t] = [state |-> "connecting", bound |-> Delegates(s.kind)],
                        !.ops = @ \o <<<<t, "CreateWebSocket", TargetUrl(s, OptionalOverrideUrl)>>>>
                                    \o AddOps(s.kind, t) \o <<<<t, "Connect", "">>>>]

\* UAudioReceiver::StartConnection / UEmotionReceiver::StartConnection
StartConnection(s, OptionalOverrideUrl, destroyed) ==
    IF TargetUrl(s, OptionalOverrideUrl) = EmptyUrl
    THEN s
    ELSE LET s1 == StopConnection(s, destroyed)
             t  == s1.created + 1
         IN  [s1 EXCEPT !.created = t,
                        !.WebSocket = t,
                        !.sockets[t] = [state |-> "connecting", bound |-> Delegates(s.kind)],
                        !.ops = @ \o <<<<t, "CreateWebSocket", TargetUrl(s, OptionalOverrideUrl)>>>>
                                    \o AddOps(s.kind, t) \o <<<<t, "Connect", "">>>>]

(***************************************************************************)
(* What a connection-state listener does while Broadcast(false) runs: it   *)
(* returns, or it calls back into the receiver (a host that reconnects or  *)
(* gives up as soon as it hears of the disconnection).  The handler goes   *)
(* on after the listener returns.  A listener of Broadcast(true) or of a   *)
(* payload broadcast is the last statement of its handler, so a call it    *)
(* makes is the same as the host's call right after the handler.           *)
(***************************************************************************)
NoListenerCall == [call |-> "none", url |-> EmptyUrl, destroyed |-> FALSE]

Listener(s, listener) ==
    CASE listener.call = "StartConnection" ->
             StartConnection(s, listener.url, listener.destroyed)
      [] listener.call = "StopConnection" -> StopConnection(s, listener.destroyed)
      [] OTHER -> s

\* UAudioReceiver::HandleConnected / UEmotionReceiver::HandleConnected
HandleConnected(s) ==
    [s EXCEPT !.bIsConnected = TRUE,
              !.stateEvents = Append(@, TRUE)]

\* UAudioReceiver::HandleConnectionError / UEmotionReceiver::HandleConnectionError
HandleConnectionError(s, Error, listener, destroyed) ==
    ResetWebSocket(Listener([s EXCEPT !.bIsConnected = FALSE,
                                      !.stateEvents = Append(@, FALSE)], listener),
                   destroyed)

\* HandleClosed that takes a clean close for one the session asked for and
\* does not report it
HandleClosedSilentWhenClean(s, StatusCode, Reason, bWasClean, listener, destroyed) ==
    IF bWasClean
    THEN ResetWebSocket(s, destroyed)
    ELSE ResetWebSocket(Listener([s EXCEPT !.bIsConnected = FALSE,
                                           !.stateEvents = Append(@, FALSE)], listener),
                        destroyed)

\* UAudioReceiver::HandleClosed / UEmotionReceiver::HandleClosed
HandleClosed(s, StatusCode, Reason, bWasClean, listener, destroyed) ==
    ResetWebSocket(Listener([s EXCEPT !.bIsConnected = FALSE,
                                      !.stateEvents = Append(@, FALSE)], listener),
                   destroyed)

\* The end of the receiver object.  Neither class declares a destructor or
\* overrides BeginDestroy, so all that happens is the destruction of the
\* members: the TSharedPtr drops the session's reference to the transport.
\* No RemoveAll and no Close is issued; the member functions bound with
\* AddUObject stay in the transport's delegates and are no longer run.
ImplicitDestructor(s, destroyed) ==
    IF s.WebSocket # NullSocket
    THEN [s EXCEPT !.WebSocket = NullSocket,
                   !.sockets[s.WebSocket] = IF destroyed THEN DestroyedSocket ELSE @]
    ELSE s

(***************************************************************************)
(* Binary frame forwarder (audio).  Data is the transport's receive        *)
(* buffer: a null pointer, or the bytes it points to; Size is the count    *)
(* the transport passes with it.                                           *)
(***************************************************************************)
Bytes == {0, 255}
NullData == [null |-> TRUE, bytes |-> <<>>]
SeqsUpTo(S, n) == UNION {[1..m -> S] : m \in 0..n}
DataInputs == {NullData} \cup {[null |-> FALSE, bytes |-> b] : b \in SeqsUpTo(Bytes, MaxChunk)}

\* the sizes a transport passes with a buffer: at most the bytes it holds, and
\* any size with a null pointer
Sizes(Data) == IF Data.null THEN 0..MaxChunk ELSE 0..Len(Data.bytes)
BytesRemainingInputs == {0, 1}

\* HandleBinaryMessage that holds a fragment back until the frame is complete
HandleBinaryMessageDropsFragments(s, Data, Size, BytesRemaining) ==
    IF Data.null \/ Size = 0 \/ BytesRemaining > 0
    THEN s
    ELSE [s EXCEPT !.payloads = Append(@, SubSeq(Data.bytes, 1, Size))]

\* UAudioReceiver::HandleBinaryMessage
HandleBinaryMessage(s, Data, Size, BytesRemaining) ==
    IF Data.null \/ Size = 0
    THEN s
    ELSE [s EXCEPT !.payloads = Append(@, SubSeq(Data.bytes, 1, Size))]

(***************************************************************************)
(* Emotion message decoder.  A text message is modelled by what            *)
(* FJsonSerializer::Deserialize makes of it: root says whether the text is *)
(* malformed, or which kind of JSON value it holds; Values is the          *)
(* key/value map of a root object.  A number is an integer count of        *)
(* 1/Scale units; a string is a sequence of characters.                    *)
(***************************************************************************)
Scale == 10 * 10

JNumber(n) == [Type |-> "Number", Num |-> n, Str |-> <<>>, Bool |-> FALSE]
JString(str) == [Type |-> "String", Num |-> 0, Str |-> str, Bool |-> FALSE]
JBoolean(b) == [Type |-> "Boolean", Num |-> 0, Str |-> <<>>, Bool |-> b]
JNull == [Type |-> "Null", Num |-> 0, Str |-> <<>>, Bool |-> FALSE]
JArray == [Type |-> "Array", Num |-> 0, Str |-> <<>>, Bool |-> FALSE]
JObject == [Type |-> "Object", Num |-> 0, Str |-> <<>>, Bool |-> FALSE]

Digits == <<"0", "1", "2", "3", "4", "5", "6", "7", "8", "9">>
IsDigit(c) == \E i \in 1..10 : Digits[i] = c
DigitValue(c) == (CHOOSE i \in 1..10 : Digits[i] = c) - 1

\* FString::IsNumeric as RawString.IsNumeric() uses it: not empty, an optional
\* sign, then digits with at most one '.'
IsNumeric(str) ==
    /\ Len(str) > 0
    /\ LET body == IF str[1] \in {"-", "+"} THEN Tail(str) ELSE str
       IN  /\ \A i \in 1..Len(body) : IsDigit(body[i]) \/ body[i] = "."
           /\ Cardinality({i \in 1..Len(body) : body[i] = "."}) <= 1

RECURSIVE DigitsValue(_)
\* the value of a run of digits
DigitsValue(ds) ==
    IF Len(ds) = 0 THEN 0
    ELSE 10 * DigitsValue(SubSeq(ds, 1, Len(ds) - 1)) + DigitValue(ds[Len(ds)])

RECURSIVE Pow10(_)
Pow10(n) == IF n = 0 THEN 1 ELSE 10 * Pow10(n - 1)

\* FCString::Atof on a string IsNumeric accepts, in 1/Scale units (digits
\* beyond the Scale's precision are cut)
Atof(str) ==
    LET neg   == Len(str) > 0 /\ str[1] = "-"
        body  == IF Len(str) > 0 /\ str[1] \in {"-", "+"} THEN Tail(str) ELSE str
        dots  == {i \in 1..Len(body) : body[i] = "."}
        dot   == IF dots = {} THEN Len(body) + 1 ELSE CHOOSE i \in dots : TRUE
        whole == SubSeq(body, 1, dot - 1)
        frac  == SubSeq(body, dot + 1, Len(body))
        mag   == DigitsValue(whole) * Scale
                     + (DigitsValue(frac) * Scale) \div Pow10(Len(frac))
    IN  IF neg THEN 0 - mag ELSE mag

\* FJsonValue::TryGetNumber for each class of value
TryGetNumber(v) ==
    CASE v.Type = "Number"  -> [ok |-> TRUE, value |-> v.Num]
      [] v.Type = "String"  -> IF IsNumeric(v.Str)
                               THEN [ok |-> TRUE, value |-> Atof(v.Str)]
                               ELSE [ok |-> FALSE, value |-> 0]
      [] v.Type = "Boolean" -> [ok |-> TRUE, value |-> IF v.Bool THEN Scale ELSE 0]
      [] OTHER              -> [ok |-> FALSE, value |-> 0]

\* the keys of a root object whose value the loop of TryParseEmotionMessage adds
UsableKeys(Values) ==
    {key \in DOMAIN Values :
        \/ TryGetNumber(Values[key]).ok
        \/ Values[key].Type = "String" /\ IsNumeric(Values[key].Str)}

\* UEmotionReceiver::TryParseEmotionMessage: ok is the returned bool, OutValues
\* the map it fills
TryParseEmotionMessage(Message) ==
    IF Message.root # "object"
    THEN [ok |-> FALSE, OutValues |-> <<>>]
    ELSE LET OutValues ==
                 [key \in UsableKeys(Message.Values) |->
                     IF TryGetNumber(Message.Values[key]).ok
                     THEN TryGetNumber(Message.Values[key]).value
                     ELSE Atof(Message.Values[key].Str)]
         IN  [ok |-> DOMAIN OutValues # {}, OutValues |-> OutValues]

\* UEmotionReceiver::HandleMessage
HandleMessage(s, Message) ==
    IF TryParseEmotionMessage(Message).ok
    THEN [s EXCEPT !.payloads = Append(@, TryParseEmotionMessage(Message).OutValues)]
    ELSE s

(***************************************************************************)
(* Inputs.                                                                 *)
(***************************************************************************)
DefaultUrl(k) == IF k = "audio" THEN DefaultAudioUrl ELSE DefaultEmotionUrl
ConfiguredUrls(k) == {EmptyUrl, DefaultUrl(k)}
OverrideUrls == {EmptyUrl, OverrideUrl}
Errors == {"connection refused"}
StatusCodes == {1000, 1006}
Reasons == {"", "going away"}

Keys == {"joy", "label"}
ValueSamples ==
    {JNumber(80), JString(<<"0", ".", "1">>), JString(<<"h", "i">>), JString(<<>>),
     JString(<<"-">>), JString(<<"1", "e", "5">>), JBoolean(TRUE), JNull, JArray, JObject}
\* objects of no or one key with every sample value, and objects of two keys
\* that mix a number with every sample value
ObjectMessages ==
    {[root |-> "object", Values |-> f] :
        f \in UNION {[K -> ValueSamples] : K \in {{}, {"joy"}}}
               \cup {g \in [Keys -> ValueSamples] : g["joy"] = JNumber(80)}}
OtherMessages ==
    {[root |-> r, Values |-> <<>>] : r \in {"malformed", "array", "number"}}
Messages == ObjectMessages \cup OtherMessages

ListenerCalls ==
    {NoListenerCall}
        \cup {[call |-> "StartConnection", url |-> o, destroyed |-> d] :
                 o \in OverrideUrls, d \in BOOLEAN}
        \cup {[call |-> "StopConnection", url |-> EmptyUrl, destroyed |-> d] : d \in BOOLEAN}

(***************************************************************************)
(* The transport, as far as the session depends on it: its own connection  *)
(* state, which IWebSocket::IsConnected reports, and the delegates it      *)
(* broadcasts on.  It reports connected or an error in answer to           *)
(* Connect(), messages while it is connected, and an error or a close to   *)
(* end the connection.  The event that ends a connection need not be the   *)
(* last one: a transport that is still alive may report the close of the   *)
(* socket after it reported the error, or after a first close.  A handler  *)
(* runs only through a delegate the session is still bound to.             *)
(***************************************************************************)
Bound(t, delegate) == delegate \in sockets[t].bound

\* the transport's own state once it has reported the event of a delegate
AfterEvent(s, t, delegate) ==
    [s EXCEPT !.sockets[t].state =
        CASE delegate = ConnectedDelegate -> "connected"
          [] delegate \in {ErrorDelegate, ClosedDelegate} -> "closed"
          [] OTHER -> @]

\* the events a transport reports in each state of its life
InOrder(t, delegate) ==
    CASE delegate = ConnectedDelegate -> sockets[t].state = "connecting"
      [] delegate = ErrorDelegate -> sockets[t].state \in {"connecting", "connected"}
      [] delegate = ClosedDelegate -> sockets[t].state \in {"connected", "closed"}
      [] OTHER -> sockets[t].state = "connected"

Delivers(t, delegate) == Bound(t, delegate) /\ InOrder(t, delegate)

\* the last two entries of a sequence
Recent(seq) ==
    IF Len(seq) <= 2 THEN seq ELSE SubSeq(seq, Len(seq) - 1, Len(seq))

\* the receiver object exists: no member function runs on a destroyed one
Alive == last.op # "destructor"

\* the state after a call that leaves the session as s
Install(s, op, t) ==
    /\ Alive
    /\ WebSocketUrl' = s.WebSocketUrl
    /\ WebSocket' = s.WebSocket
    /\ bIsConnected' = s.bIsConnected
    /\ sockets' = s.sockets
    /\ created' = s.created
    /\ OnConnectionStateChanged' = Recent(OnConnectionStateChanged \o s.stateEvents)
    /\ last' = [op |-> op, socket |-> t, ops |-> s.ops,
                stateEvents |-> s.stateEvents, payloads |-> s.payloads]
    /\ UNCHANGED kind

\* a call creates a transport only while the model has one left
HasSocketFor(s, url) == TargetUrl(s, url) # EmptyUrl => s.created < MaxSockets
ListenerHasSocket(s, listener) ==
    listener.call = "StartConnection" => HasSocketFor(s, listener.url)

(***************************************************************************)
(* Actions: the host's calls and the transports' callbacks.                *)
(***************************************************************************)
Init ==
    /\ kind \in {"audio", "emotion"}
    /\ WebSocketUrl = DefaultUrl(kind)
    /\ WebSocket = NullSocket
    /\ bIsConnected = FALSE
    /\ sockets = [t \in SocketIds |-> NoSocket]
    /\ created = 0
    /\ OnConnectionStateChanged = <<>>
    /\ last = [op |-> "constructor", socket |-> NullSocket, ops |-> <<>>,
               stateEvents |-> <<>>, payloads |-> <<>>]

\* the host writes the WebSocketUrl property
SetWebSocketUrl(url) ==
    /\ url # WebSocketUrl
    /\ Install([Session EXCEPT !.WebSocketUrl = url], "SetWebSocketUrl", NullSocket)

CallStartConnection(OptionalOverrideUrl, destroyed) ==
    /\ HasSocketFor(Session, OptionalOverrideUrl)
    /\ Install(StartConnection(Session, OptionalOverrideUrl, destroyed),
               "StartConnection", NullSocket)

CallStopConnection(destroyed) ==
    Install(StopConnection(Session, destroyed), "StopConnection", NullSocket)

Connected(t) ==
    /\ Delivers(t, ConnectedDelegate)
    /\ Install(HandleConnected(AfterEvent(Session, t, ConnectedDelegate)),
               "HandleConnected", t)

ConnectionError(t, Error, listener, destroyed) ==
    /\ Delivers(t, ErrorDelegate)
    /\ ListenerHasSocket(Session, listener)
    /\ Install(HandleConnectionError(AfterEvent(Session, t, ErrorDelegate),
                                     Error, listener, destroyed),
               "HandleConnectionError", t)

Closed(t, StatusCode, Reason, bWasClean, listener, destroyed) ==
    /\ Delivers(t, ClosedDelegate)
    /\ ListenerHasSocket(Session, listener)
    /\ Install(HandleClosed(AfterEvent(Session, t, ClosedDelegate),
                            StatusCode, Reason, bWasClean, listener, destroyed),
               "HandleClosed", t)

RawMessage(t, Data, Size, BytesRemaining) ==
    /\ kind = "audio"
    /\ Delivers(t, MessageDelegate(kind))
    /\ Install(HandleBinaryMessage(Session, Data, Size, BytesRemaining),
               "HandleBinaryMessage", t)

TextMessage(t, Message) ==
    /\ kind = "emotion"
    /\ Delivers(t, MessageDelegate(kind))
    /\ Install(HandleMessage(Session, Message), "HandleMessage", t)

\* the host drops the receiver and the engine destroys it
Destroy(destroyed) ==
    Install(ImplicitDestructor(Session, destroyed), "destructor", NullSocket)

Next ==
    \/ \E url \in ConfiguredUrls(kind) : SetWebSocketUrl(url)
    \/ \E o \in OverrideUrls, destroyed \in BOOLEAN : CallStartConnection(o, destroyed)
    \/ \E destroyed \in BOOLEAN : CallStopConnection(destroyed)
    \/ \E t \in SocketIds : Connected(t)
    \/ \E t \in SocketIds, e \in Errors, l \in ListenerCalls, destroyed \in BOOLEAN :
           ConnectionError(t, e, l, destroyed)
    \/ \E t \in SocketIds, c \in StatusCodes, r \in Reasons, w \in BOOLEAN,
             l \in ListenerCalls, destroyed \in BOOLEAN :
           Closed(t, c, r, w, l, destroyed)
    \/ \E t \in SocketIds, d \in DataInputs, rem \in BytesRemainingInputs :
           \E size \in Sizes(d) : RawMessage(t, d, size, rem)
    \/ \E t \in SocketIds, m \in Messages : TextMessage(t, m)
    \/ \E destroyed \in BOOLEAN : Destroy(destroyed)

Spec == Init /\ [][Next]_vars

(***************************************************************************)
(* Properties.                                                             *)
(***************************************************************************)
CloseHandlers == {"HandleConnectionError", "HandleClosed"}

\* the transports a sequence of transport operations created
CreatedIn(ops) == {ops[i][1] : i \in {j \in DOMAIN ops : ops[j][2] = "CreateWebSocket"}}

\* the transports that are open at the transport layer
OpenSockets == {t \in SocketIds : sockets[t].state \in {"connecting", "connected"}}

\* C1: IsConnected() is false as long as no connection was started, and right
\* after every StopConnection call.
C1_NotConnectedBeforeStartAndAfterStop ==
    (created = 0 \/ last.op = "StopConnection") => ~IsConnected

\* StopConnection has just torn down a connected transport (four RemoveAll and a Close)
C1_StoppedWhileConnected ==
    /\ last.op = "StopConnection"
    /\ Len(last.ops) = 5
    /\ OnConnectionStateChanged # <<>>
    /\ OnConnectionStateChanged[Len(OnConnectionStateChanged)] = TRUE

\* C2: no two consecutive connection-state notifications carry the same value.
C2_NotificationsAlternate ==
    Len(OnConnectionStateChanged) = 2 =>
        OnConnectionStateChanged[1] # OnConnectionStateChanged[2]

\* C3: once StartConnection has replaced a transport the session held, that
\* transport is bound to nothing, stays so and makes no callback, and when the
\* call was made while a callback of the old transport ran, what is left of
\* that callback changes nothing: the session still holds the new transport.
C3_OldTransportNeverActsAfterRestart ==
    [][/\ \A t \in SocketIds :
              (sockets[t].state # "none" /\ sockets[t].bound = {}) =>
                  (sockets'[t].bound = {} /\ last'.socket # t)
       /\ (last'.op = "StartConnection" /\ WebSocket # NullSocket
              /\ CreatedIn(last'.ops) # {}) =>
              sockets'[WebSocket].bound = {}
       /\ (last'.op \in CloseHandlers /\ WebSocket # NullSocket
              /\ CreatedIn(last'.ops) # {}) =>
              (sockets'[WebSocket].bound = {} /\ WebSocket' \in CreatedIn(last'.ops))
      ]_vars

\* C4: StartConnection with an empty override and an empty configured address
\* returns the session as it found it: no transport operation, no broadcast, no
\* change of the handle, the flag or any transport.
C4_EmptyAddressStartIsNoOp ==
    /\ WebSocketUrl = EmptyUrl =>
           \A d \in BOOLEAN : StartConnection(Session, EmptyUrl, d) = Session
    /\ (WebSocketUrl = EmptyUrl /\ last.op = "StartConnection" /\ CreatedIn(last.ops) = {}) =>
           (last.ops = <<>> /\ last.stateEvents = <<>>)

\* StartConnection("") ran with no configured address on a connected session
C4_EmptyStartWhileConnected ==
    /\ WebSocketUrl = EmptyUrl
    /\ last.op = "StartConnection"
    /\ last.ops = <<>>
    /\ bIsConnected
    /\ WebSocket # NullSocket
    /\ sockets[WebSocket].state = "connected"

\* C5: at most one transport of the session is open (connecting or connected).
C5_AtMostOneOpenTransport == Cardinality(OpenSockets) <= 1

\* C6: the flag is true only from a connected callback of the transport the
\* session holds until the next error callback, closed callback, StopConnection
\* or StartConnection (a StartConnection that is refused for want of an address
\* does nothing and is not counted).
C6_ConnectedOnlySinceConnectedCallback ==
    [][(Alive' /\ bIsConnected') =>
          \/ last'.op = "HandleConnected" /\ last'.socket = WebSocket'
          \/ /\ bIsConnected
             /\ WebSocket' = WebSocket
             /\ \/ last'.op \in {"HandleBinaryMessage", "HandleMessage", "SetWebSocketUrl"}
                \/ last'.op = "StartConnection" /\ last'.ops = <<>>
      ]_vars

\* C7: an error or closed callback of a transport leaves the session without a
\* handle and not connected, having broadcast false exactly once; a callback
\* of the same transport that comes next, before any StartConnection, changes
\* nothing in the session and broadcasts nothing; the handlers themselves
\* issue no transport operation (no connect request), and a StopConnection
\* that follows finds nothing to do.
C7_InertAfterErrorOrClose ==
    [][/\ last'.op \in CloseHandlers =>
              /\ WebSocket' = NullSocket
              /\ ~bIsConnected'
              /\ last'.stateEvents = <<FALSE>>
              /\ last'.payloads = <<>>
       /\ (last.op \in CloseHandlers /\ CreatedIn(last.ops) = {}
              /\ last'.socket = last.socket) =>
              /\ UNCHANGED <<WebSocket, bIsConnected, OnConnectionStateChanged>>
              /\ last'.stateEvents = <<>>
              /\ last'.payloads = <<>>
       /\ \A t \in SocketIds, l \in BOOLEAN :
              /\ Delivers(t, ErrorDelegate) =>
                     HandleConnectionError(AfterEvent(Session, t, ErrorDelegate),
                                           "connection refused", NoListenerCall, l).ops = <<>>
              /\ Delivers(t, ClosedDelegate) =>
                     HandleClosed(AfterEvent(Session, t, ClosedDelegate),
                                  1006, "", FALSE, NoListenerCall, l).ops = <<>>
       /\ (last.op \in CloseHandlers /\ last'.op = "StopConnection") =>
              /\ UNCHANGED <<WebSocket, bIsConnected, sockets, created,
                             OnConnectionStateChanged>>
              /\ last'.ops = <<>> /\ last'.stateEvents = <<>>
      ]_vars

\* C8: StopConnection on a session that holds a transport removes the four
\* callbacks, then asks for a close with code 1000 exactly when the transport
\* reports connected, and leaves no handle and the flag false; the transport,
\* bound to nothing, delivers no closed event.
C8_StopUnbindsThenClosesIfConnected ==
    [][(last'.op = "StopConnection" /\ WebSocket # NullSocket) =>
          /\ last'.ops = RemoveAllOps(kind, WebSocket)
                             \o (IF sockets[WebSocket].state = "connected"
                                 THEN <<<<WebSocket, "Close", "1000">>>>
                                 ELSE <<>>)
          /\ WebSocket' = NullSocket
          /\ ~bIsConnected'
          /\ last'.stateEvents = <<>>
          /\ \A t \in SocketIds :
                 WebSocket = t => (\A d \in Delegates(kind) : ~Delivers(t, d))'
      ]_vars

\* StopConnection has just dropped a transport that was still connecting
C8_StoppedWhileConnecting ==
    /\ last.op = "StopConnection"
    /\ Len(last.ops) = 4
    /\ \E t \in SocketIds : sockets[t].state = "connecting" /\ sockets[t].bound = {}

\* C9: StopConnection on a session without a handle changes nothing and does
\* nothing, so a second StopConnection adds nothing to the first.
C9_StopIsIdempotent ==
    /\ (Alive /\ WebSocket = NullSocket) =>
           \A d \in BOOLEAN : StopConnection(Session, d) = Session
    /\ \A d1, d2 \in BOOLEAN :
           StopConnection(StopConnection(Session, d1), d2) = StopConnection(Session, d1)

\* C10: in every state and for every status code, reason and clean flag, the
\* closed callback of a transport leaves the session exactly as its error
\* callback would: flag false, one broadcast of false, no handle.
C10_ClosedSameAsError ==
    \A t \in SocketIds, c \in StatusCodes, r \in Reasons, w \in BOOLEAN,
       l \in ListenerCalls, d \in BOOLEAN :
        (sockets[t].state # "none" /\ ListenerHasSocket(Session, l)) =>
            LET closed == HandleClosed(AfterEvent(Session, t, ClosedDelegate), c, r, w, l, d)
                error  == HandleConnectionError(AfterEvent(Session, t, ErrorDelegate),
                                                "connection refused", l, d)
            IN  /\ closed = error
                /\ ~closed.bIsConnected
                /\ closed.stateEvents = <<FALSE>>
                /\ closed.WebSocket = NullSocket

\* a clean close with code 1000 has just ended a connection
C10_CleanCloseReported ==
    /\ last.op = "HandleClosed"
    /\ last.stateEvents = <<FALSE>>
    /\ WebSocket = NullSocket
    /\ \E t \in SocketIds : sockets[t].state = "closed" /\ last.socket = t

\* C11: a raw-message callback with a non-null pointer and a size N > 0 makes
\* exactly one chunk-received broadcast, of the first N bytes of the buffer in
\* their order, whatever BytesRemaining is; one with a null pointer or size 0
\* makes none; either way the flag, the handle, the transports and the
\* connection-state broadcasts are as before and no transport operation is made.
C11_ForwardsEachChunkOnce ==
    [][last'.op = "HandleBinaryMessage" =>
          /\ last'.ops = <<>> /\ last'.stateEvents = <<>>
          /\ UNCHANGED <<WebSocket, bIsConnected, sockets, created,
                         OnConnectionStateChanged>>
          /\ \A d \in DataInputs, rem \in BytesRemainingInputs :
                 \A size \in Sizes(d) :
                     (/\ last'.payloads = HandleBinaryMessage(Session, d, size, rem).payloads
                      /\ RawMessage(last'.socket, d, size, rem)) =>
                         /\ (~d.null /\ size > 0) =>
                                /\ Len(last'.payloads) = 1
                                /\ Len(last'.payloads[1]) = size
                                /\ \A i \in 1..size : last'.payloads[1][i] = d.bytes[i]
                         /\ (d.null \/ size = 0) => last'.payloads = <<>>
      ]_vars

\* a chunk of the largest size has just been forwarded
C11_FullChunkForwarded ==
    /\ last.op = "HandleBinaryMessage"
    /\ Len(last.payloads) = 1
    /\ Len(last.payloads[1]) = MaxChunk
    /\ last.payloads[1][1] # last.payloads[1][MaxChunk]
    /\ bIsConnected

\* a string that is entirely a numeric literal: an optional sign and digits
\* with at most one '.', at least one digit among them
NumericLiteral(str) ==
    /\ IsNumeric(str)
    /\ \E i \in 1..Len(str) : IsDigit(str[i])

\* the top-level keys of an object whose value is a JSON number or a string
\* that is a numeric literal
NumericKeys(Values) ==
    {key \in DOMAIN Values :
        \/ Values[key].Type = "Number"
        \/ Values[key].Type = "String" /\ NumericLiteral(Values[key].Str)}

\* the mapping of these keys to their numeric values
NumericValues(Values) ==
    [key \in NumericKeys(Values) |->
        IF Values[key].Type = "Number" THEN Values[key].Num ELSE Atof(Values[key].Str)]

\* C12: for a text message that is a JSON object, the decoded mapping has
\* exactly the top-level keys whose value is a number or a numeric-literal
\* string, with that value, and no key of a non-numeric string, boolean, null,
\* array or object; a mapping with an entry is broadcast to OnEmotionUpdate
\* exactly once.
C12_DecodesNumbersAndNumericStrings ==
    [][\A t \in {u \in SocketIds : last'.op = "HandleMessage" /\ last'.socket = u},
          m \in ObjectMessages :
          TextMessage(t, m) =>
              /\ TryParseEmotionMessage(m).OutValues = NumericValues(m.Values)
              /\ last'.payloads = IF NumericKeys(m.Values) # {}
                                  THEN <<NumericValues(m.Values)>>
                                  ELSE <<>>
      ]_vars

\* C13: a text message that is malformed, is not a JSON object, or is an
\* object with no number and no numeric-literal string among its values is
\* dropped: no OnEmotionUpdate broadcast, no connection-state broadcast, no
\* transport operation (no close), and the flag, the handle and the
\* transports as before.
C13_ParseErrorDropsMessageOnly ==
    [][\A t \in {u \in SocketIds : last'.op = "HandleMessage" /\ last'.socket = u},
          m \in Messages :
          (TextMessage(t, m) /\ (m.root # "object" \/ NumericKeys(m.Values) = {})) =>
              /\ last'.payloads = <<>>
              /\ last'.stateEvents = <<>>
              /\ last'.ops = <<>>
              /\ UNCHANGED <<WebSocket, bIsConnected, sockets, created,
                             OnConnectionStateChanged>>
      ]_vars

\* C14: the destruction of a session that holds a transport does to the
\* transport what StopConnection does: the four callbacks are removed and a
\* connected transport is asked to close, so that the transport is bound to
\* nothing and not left connected.
C14_DestructionStopsConnection ==
    [][(last'.op = "destructor" /\ WebSocket # NullSocket) =>
          /\ \E d \in BOOLEAN : last'.ops = StopConnection(Session, d).ops
          /\ sockets'[WebSocket].bound = {}
          /\ sockets'[WebSocket].state # "connected"
      ]_vars

\* C15: StartConnection whose resolved address (the override if not empty,
\* else the configured one) is not empty does, in this order: what
\* StopConnection does, CreateWebSocket for the resolved address, the four
\* AddUObject (connected, error, closed, message) and one Connect; on return
\* the session holds the new transport, which is connecting and bound to the
\* four handlers, IsConnected() is false and nothing was broadcast.
C15_StartTearsDownThenConnects ==
    [][\A o \in OverrideUrls, d \in BOOLEAN :
          LET resolved == IF o # EmptyUrl THEN o ELSE WebSocketUrl
              t == created + 1
          IN  (CallStartConnection(o, d) /\ resolved # EmptyUrl) =>
                  /\ last'.ops = StopConnection(Session, d).ops
                                     \o <<<<t, "CreateWebSocket", resolved>>,
                                          <<t, "AddUObject", "OnConnected">>,
                                          <<t, "AddUObject", "OnConnectionError">>,
                                          <<t, "AddUObject", "OnClosed">>,
                                          <<t, "AddUObject", MessageDelegate(kind)>>,
                                          <<t, "Connect", "">>>>
                  /\ WebSocket' = t
                  /\ sockets'[t] = [state |-> "connecting", bound |-> Delegates(kind)]
                  /\ \A u \in SocketIds \ {t} : sockets'[u] = StopConnection(Session, d).sockets[u]
                  /\ ~IsConnected'
                  /\ last'.stateEvents = <<>>
                  /\ last'.payloads = <<>>
      ]_vars

\* StartConnection with an override has just replaced a connected transport
C15_RestartedWhileConnected ==
    /\ last.op = "StartConnection"
    /\ Len(last.ops) = 11
    /\ last.ops[5][2] = "Close"
    /\ last.ops[6] = <<WebSocket, "CreateWebSocket", OverrideUrl>>
    /\ ~bIsConnected
    /\ OnConnectionStateChanged # <<>>
    /\ OnConnectionStateChanged[Len(OnConnectionStateChanged)] = TRUE

\* C16: the value IsConnected() returns changes only in a step of a connected,
\* error or closed callback; no StartConnection and no StopConnection changes it.
C16_FlagChangedOnlyByCallbacks ==
    [][IsConnected' # IsConnected =>
          last'.op \in {"HandleConnected", "HandleConnectionError", "HandleClosed"}
      ]_vars

\* C16, amended: the flag becomes true only in a connected callback; it becomes
\* false only in an error callback, a closed callback, a StopConnection or a
\* StartConnection that got past the test of the address (ResetWebSocket at
\* the end of the teardown); nothing else changes it.
C16_FlagSetByConnectedClearedByResets ==
    [][IsConnected' # IsConnected =>
          IF IsConnected'
          THEN last'.op = "HandleConnected"
          ELSE \/ last'.op \in CloseHandlers \cup {"StopConnection"}
               \/ last'.op = "StartConnection" /\ last'.ops # <<>>
      ]_vars

\* StopConnection has just cleared the flag of the second connection
C16_StopClearedFlag ==
    /\ last.op = "StopConnection"
    /\ last.ops = RemoveAllOps(kind, 2) \o <<<<2, "Close", "1000">>>>
    /\ ~bIsConnected
    /\ OnConnectionStateChanged = <<FALSE, TRUE>>

\* C17: every step that changes the value of IsConnected() broadcasts the new
\* value exactly once to the connection-state listeners, also the change made
\* by StopConnection and by the teardown inside StartConnection, so that the
\* last value broadcast is the value of IsConnected().
C17_EveryFlagChangeIsAnnounced ==
    [][/\ IsConnected' # IsConnected => last'.stateEvents = <<IsConnected'>>
       /\ OnConnectionStateChanged' # <<>> =>
              OnConnectionStateChanged'[Len(OnConnectionStateChanged')] = IsConnected'
      ]_vars

\* C18: whenever IsConnected() of a live session is true, the session holds a
\* transport handle.
C18_ConnectedImpliesHandle == (Alive /\ IsConnected) => WebSocket # NullSocket

\* C19: a chunk-received or emotion-updated broadcast is made only while
\* IsConnected() is true and the session holds a transport handle.
C19_PayloadsOnlyWhileConnected ==
    [][(last'.op \in {"HandleBinaryMessage", "HandleMessage"} /\ last'.payloads # <<>>) =>
          /\ IsConnected /\ WebSocket # NullSocket
          /\ IsConnected' /\ WebSocket' # NullSocket
      ]_vars

====
